---- MODULE Spec2Model ----
(***************************************************************************)
(* Trade matching and item lifecycle of the tedlist item-trading app.      *)
(*                                                                         *)
(* The record shapes and their defaults come from the Mongoose schemas of  *)
(* the backend guide (Item, Trade, Notification, User) and from the client *)
(* services (tradeService.ts, itemService.ts).  The request handlers the   *)
(* routes delegate to (tradeController, itemController) are not part of    *)
(* the sources; they are written here from sections 4.2, 4.3, 4.4 and 7 of *)
(* the specification, each handler as one atomic request/response step.    *)
(***************************************************************************)
EXTENDS Integers, Sequences, FiniteSets, TLC

\* ------------------------------------------------------------------ bounds
\* Number of Trade records the store may hold.
MaxTrades == 2
\* Number of times a User record is saved after its registration.
MaxSaves == 2

\* --------------------------------------------------------------- entities
Users == {"A", "B", "C"}
Items == {"I1", "I2", "I3"}

\* Item.owner: a required reference to a User, fixed at creation.
\* A lists two items, B one, C none.
Owner == [i \in Items |-> IF i = "I2" THEN "B" ELSE "A"]

\* Item.status enum and its default.
ItemStatus == {"available", "traded", "pending", "removed"}
ItemDefaultStatus == "available"

\* Trade.status enum and its default.
TradeStatus == {"pending", "accepted", "rejected", "completed"}
TradeDefaultStatus_Accepted == "accepted"
TradeDefaultStatus == "pending"

\* Notification.type enum.
NotificationType == {"match", "trade", "system", "admin"}

\* Error taxonomy of the workflow operations.
Errors == {"ValidationError", "InvalidStateError", "AuthorizationError",
           "ConflictError", "NotFoundError"}

VARIABLES
  status,         \* Item.status of every item
  trades,         \* the Trade collection, a trade's id is its index
  notifications,  \* the Notification collection
  stats,          \* User.stats.trades of every user
  last            \* the last request and the response the client got

\* The state of the app on the device.
VARIABLES
  screenNotifications, \* NotificationsScreen: the `notifications` state
  form,                \* the item submission screen: its form state and
                       \* the createItem request it sent last
  storage,             \* AsyncStorage: the keys present and their values
  session,             \* AuthContext: user, isAuthenticated, isLoading
  loginScreen,         \* LoginScreen: biometrics state and the open prompt
  accounts,            \* the User collection: the stored password per email
  http,                \* the last request through apiClient: the responses
                       \* it received, the refresh calls, the outcome
  reg,                 \* RegisterScreen: the fields, the field errors and
                       \* the register request it sent last
  deck,                \* SwipeScreen: the user, the selected item and the
                       \* cards (potentialTrades)
  listings,            \* server: stats.listings of each User record
  home                 \* HomeScreen: the item list and the selection

tradeVars == <<status, trades, notifications, stats, last>>
authVars == <<storage, session, loginScreen, accounts, http>>
clientVars ==
  <<screenNotifications, form, authVars, reg, deck, listings, home>>
vars == <<status, trades, notifications, stats, last, screenNotifications,
          form, storage, session, loginScreen, accounts, http, reg, deck,
          listings, home>>

TradeIds == 1..Len(trades)

\* ------------------------------------------------- item lifecycle manager
\* Each transition maps the current status to the new one, or to "ERR"
\* where the transition is not legal (InvalidStateError).
proposeInvolvement_NoChange(s) == IF s = "available" THEN "available" ELSE "ERR"

proposeInvolvement(s) == IF s = "available" THEN "pending" ELSE "ERR"

complete(s) == IF s = "pending" THEN "traded" ELSE "ERR"

release_NoChange(s) == IF s \in {"pending", "available"} THEN s ELSE "ERR"

release(s) ==
  IF s = "pending" THEN "available"
  ELSE IF s = "available" THEN "available"
  ELSE "ERR"

remove_FromPending(s) ==
  IF s \in {"available", "pending"} THEN "removed" ELSE "ERR"

remove(s) == IF s = "available" THEN "removed" ELSE "ERR"

\* ------------------------------------------------------------ notification
notify(user, type, item, trade) ==
  [user |-> user, type |-> type, read |-> FALSE,
   relatedItem |-> item, relatedTrade |-> trade]

\* ------------------------------------------------------------- client side
\* tradeService.createTrade: `matched: response.data.matched || false`.
matchedOrFalse(m) == IF m = TRUE THEN TRUE ELSE FALSE

\* What the caller gets back: the outcome ("ok" or the error kind the
\* request was rejected with), the matched flag and the trade's id.
Response(op, res, matched, trade) ==
  [op |-> op, res |-> res, matched |-> matched, trade |-> trade]

\* ------------------------------------------------------ propose (createTrade)
\* A pending Trade offering o for r.
PendingFor(o, r) ==
  {t \in TradeIds : /\ trades[t].offeredItem = o
                    /\ trades[t].requestedItem = r
                    /\ trades[t].status = "pending"}

ProposeError_NoConflict(c, o, r) ==
  IF Owner[o] # c THEN "AuthorizationError"
  ELSE IF Owner[r] = c THEN "ValidationError"
  ELSE IF status[o] # "available" \/ status[r] # "available"
    THEN "InvalidStateError"
  ELSE IF PendingFor(r, o) # {}
          /\ (complete(status[o]) = "ERR" \/ complete(status[r]) = "ERR")
    THEN "InvalidStateError"
  ELSE "ok"

ProposeError_NoSelfCheck(c, o, r) ==
  IF Owner[o] # c THEN "AuthorizationError"
  ELSE IF \E t \in PendingFor(o, r) : trades[t].initiatedBy = c
    THEN "ConflictError"
  ELSE IF status[o] # "available" \/ status[r] # "available"
    THEN "InvalidStateError"
  ELSE IF PendingFor(r, o) # {}
          /\ (complete(status[o]) = "ERR" \/ complete(status[r]) = "ERR")
    THEN "InvalidStateError"
  ELSE "ok"

ProposeError_NoStatusCheck(c, o, r) ==
  IF Owner[o] # c THEN "AuthorizationError"
  ELSE IF Owner[r] = c THEN "ValidationError"
  ELSE IF \E t \in PendingFor(o, r) : trades[t].initiatedBy = c
    THEN "ConflictError"
  ELSE IF status[o] \in {"traded", "removed"} THEN "InvalidStateError"
  ELSE "ok"

\* The checks of propose, in the order they are made; "ok" when none fails.
\* Ownership and the self-trade rule come first, then the duplicate test
\* (an identical pending Trade is a ConflictError), then the status
\* validation, and last the preconditions of complete() on a match.
ProposeError(c, o, r) ==
  IF Owner[o] # c THEN "AuthorizationError"
  ELSE IF Owner[r] = c THEN "ValidationError"
  ELSE IF \E t \in PendingFor(o, r) : trades[t].initiatedBy = c
    THEN "ConflictError"
  ELSE IF status[o] # "available" \/ status[r] # "available"
    THEN "InvalidStateError"
  ELSE IF PendingFor(r, o) # {}
          /\ (complete(status[o]) = "ERR" \/ complete(status[r]) = "ERR")
    THEN "InvalidStateError"
  ELSE "ok"

NewTrade(c, o, r, st) ==
  [offeredItem |-> o, requestedItem |-> r, initiatedBy |-> c,
   respondedBy |-> Owner[r], status |-> st]

createTrade(c, o, r) ==
  LET err == ProposeError(c, o, r)
      id  == Len(trades) + 1
  IN
  /\ err = "ok" => Len(trades) < MaxTrades
  /\ IF err # "ok" THEN
       /\ last' = Response("propose", err, FALSE, 0)
       /\ UNCHANGED <<status, trades, notifications, stats>>
     ELSE IF PendingFor(r, o) # {} THEN
       \* reciprocal pending Trade: match
       LET m == CHOOSE t \in PendingFor(r, o) : TRUE IN
       /\ trades' = Append([trades EXCEPT ![m].status = "accepted"],
                           NewTrade(c, o, r, "accepted"))
       /\ status' = [status EXCEPT ![o] = complete(status[o]),
                                   ![r] = complete(status[r])]
       /\ stats' = [stats EXCEPT ![c] = @ + 1, ![Owner[r]] = @ + 1]
       /\ notifications' = notifications
                             \o << notify(c, "match", r, id),
                                   notify(Owner[r], "match", o, m) >>
       /\ last' = Response("propose", "ok", matchedOrFalse(TRUE), id)
     ELSE
       \* no reciprocal Trade: a new pending proposal
       /\ trades' = Append(trades, NewTrade(c, o, r, TradeDefaultStatus))
       /\ status' = [status EXCEPT ![o] = proposeInvolvement(status[o])]
       /\ notifications' = Append(notifications,
                                  notify(Owner[r], "trade", r, id))
       /\ last' = Response("propose", "ok", matchedOrFalse(FALSE), id)
       /\ UNCHANGED stats

\* ------------------------------------------------------- accept (acceptTrade)
AcceptError_NoAuth(c, t) ==
  IF t \notin TradeIds THEN "NotFoundError"
  ELSE IF trades[t].status # "pending" THEN "InvalidStateError"
  ELSE IF \/ complete(status[trades[t].offeredItem]) = "ERR"
          \/ complete(status[trades[t].requestedItem]) = "ERR"
    THEN "InvalidStateError"
  ELSE "ok"

AcceptError(c, t) ==
  IF t \notin TradeIds THEN "NotFoundError"
  ELSE IF c # trades[t].respondedBy THEN "AuthorizationError"
  ELSE IF trades[t].status # "pending" THEN "InvalidStateError"
  ELSE IF \/ complete(status[trades[t].offeredItem]) = "ERR"
          \/ complete(status[trades[t].requestedItem]) = "ERR"
    THEN "InvalidStateError"
  ELSE "ok"

acceptTrade(c, t) ==
  LET err == AcceptError(c, t) IN
  IF err # "ok" THEN
    /\ last' = Response("accept", err, FALSE, 0)
    /\ UNCHANGED <<status, trades, notifications, stats>>
  ELSE
    LET o == trades[t].offeredItem
        r == trades[t].requestedItem
    IN
    /\ trades' = [trades EXCEPT ![t].status = "accepted"]
    /\ status' = [i \in Items |->
                    IF i \in {o, r} THEN complete(status[i]) ELSE status[i]]
    /\ notifications' = Append(notifications,
                               notify(trades[t].initiatedBy, "trade", r, t))
    /\ last' = Response("accept", "ok", FALSE, t)
    /\ UNCHANGED stats

\* ------------------------------------------------------- reject (rejectTrade)
RejectError(c, t) ==
  IF t \notin TradeIds THEN "NotFoundError"
  ELSE IF c # trades[t].respondedBy THEN "AuthorizationError"
  ELSE IF trades[t].status # "pending" THEN "InvalidStateError"
  ELSE IF release(status[trades[t].offeredItem]) = "ERR"
    THEN "InvalidStateError"
  ELSE "ok"

rejectTrade(c, t) ==
  LET err == RejectError(c, t) IN
  IF err # "ok" THEN
    /\ last' = Response("reject", err, FALSE, 0)
    /\ UNCHANGED <<status, trades, notifications, stats>>
  ELSE
    LET o == trades[t].offeredItem IN
    /\ trades' = [trades EXCEPT ![t].status = "rejected"]
    /\ status' = [status EXCEPT ![o] = release(status[o])]
    /\ last' = Response("reject", "ok", FALSE, t)
    /\ UNCHANGED <<notifications, stats>>

\* ------------------------------------------------------------- item CRUD
\* Owner deletion: remove(item), by the owner and from available only.
DeleteError(c, i) ==
  IF Owner[i] # c THEN "AuthorizationError"
  ELSE IF remove(status[i]) = "ERR" THEN "InvalidStateError"
  ELSE "ok"

deleteItem(c, i) ==
  LET err == DeleteError(c, i) IN
  /\ last' = Response("delete", err, FALSE, 0)
  /\ status' = IF err = "ok" THEN [status EXCEPT ![i] = remove(status[i])]
               ELSE status
  /\ UNCHANGED <<trades, notifications, stats>>

\* PUT /api/items/:id with UpdateItemRequest.status = s.  The status of an
\* item is mutated only by the trade workflow or by owner deletion, and a
\* status-changing update is restricted to the lifecycle transitions: the
\* only one open to the update is remove.  Writing the current status back
\* changes nothing.
UpdateError(c, i, s) ==
  IF Owner[i] # c THEN "AuthorizationError"
  ELSE IF s = status[i] THEN "ok"
  ELSE IF s = "removed" /\ remove(status[i]) # "ERR" THEN "ok"
  ELSE "InvalidStateError"

updateItem(c, i, s) ==
  LET err == UpdateError(c, i, s) IN
  /\ last' = Response("update", err, FALSE, 0)
  /\ status' = IF err = "ok" /\ s # status[i]
               THEN [status EXCEPT ![i] = remove(status[i])]
               ELSE status
  /\ UNCHANGED <<trades, notifications, stats>>

\* ------------------------------------------------ notifications, server side
\* notificationController.markAsRead (POST /:id/read): sets read = true;
\* AuthorizationError if the caller is not the notification's recipient.
MarkReadError(c, n) ==
  IF n \notin 1..Len(notifications) THEN "NotFoundError"
  ELSE IF notifications[n].user # c THEN "AuthorizationError"
  ELSE "ok"

markRead(c, n) ==
  LET err == MarkReadError(c, n) IN
  /\ last' = Response("markRead", err, FALSE, 0)
  /\ notifications' = IF err = "ok"
                       THEN [notifications EXCEPT ![n].read = TRUE]
                       ELSE notifications
  /\ UNCHANGED <<status, trades, stats>>

\* notificationController.markAllAsRead (POST /read-all): sets read = true
\* on all of the caller's notifications; always succeeds.
markAllRead(c) ==
  /\ last' = Response("markAllRead", "ok", FALSE, 0)
  /\ notifications' = [n \in 1..Len(notifications) |->
                         IF notifications[n].user = c
                         THEN [notifications[n] EXCEPT !.read = TRUE]
                         ELSE notifications[n]]
  /\ UNCHANGED <<status, trades, stats>>

\* ------------------------------------------------ notifications, the screen
\* NotificationsScreen keeps its own list, which starts as mockNotifications
\* (ids '1'..'4'; the first two unread).
mockNotifications ==
  [id \in 1..4 |-> [type |-> CASE id = 1 -> "match" [] id = 2 -> "trade"
                                [] id = 3 -> "system" [] OTHER -> "match",
                     read |-> id > 2]]

\* notifications.map(n => n.id === id ? { ...n, read: true } : n)
markAsRead_Toggle(id) ==
  screenNotifications' =
    [n \in DOMAIN screenNotifications |->
       IF n = id THEN [screenNotifications[n] EXCEPT !.read = ~@]
       ELSE screenNotifications[n]]

markAsRead(id) ==
  screenNotifications' =
    [n \in DOMAIN screenNotifications |->
       IF n = id THEN [screenNotifications[n] EXCEPT !.read = TRUE]
       ELSE screenNotifications[n]]

unreadCount == Cardinality({n \in DOMAIN screenNotifications :
                              ~screenNotifications[n].read})

\* The "mark all as read" button is rendered only while unreadCount > 0.
\* notifications.map(n => ({ ...n, read: true }))
markAllAsRead ==
  /\ unreadCount > 0
  /\ screenNotifications' =
       [n \in DOMAIN screenNotifications |->
          [screenNotifications[n] EXCEPT !.read = TRUE]]

\* ------------------------------------------------------ item submission form
\* The repository holds two versions of the submission screen:
\* src/screens/SubmitItemScreen.tsx and the later one with the upload
\* fallback (part_005); form.screen tells which one is mounted.
SubmitScreens == {"SubmitItemScreen", "part_005"}

\* `images.length < 3`, `newImages.slice(0, 3)`.
MaxImages == 3
\* launchImageLibrary({ selectionLimit: 3 }) of SubmitItemScreen.tsx.
SelectionLimit == 3

\* Text values: empty, blank, and a word.
Texts == {<< >>, <<" ">>, <<"a">>}
\* A category / condition chip, "" while none is selected.
Choices == {"", "Other"}
\* The pictures the camera and the library can hand over.
Assets == {"p1", "p2"}

RECURSIVE trimStart(_)
trimStart(s) == IF s # << >> /\ Head(s) = " " THEN trimStart(Tail(s)) ELSE s
RECURSIVE trimEnd(_)
trimEnd(s) ==
  IF s # << >> /\ s[Len(s)] = " " THEN trimEnd(SubSeq(s, 1, Len(s) - 1)) ELSE s
\* String.prototype.trim
trim(s) == trimEnd(trimStart(s))

\* The form as useState initialises it.
NewForm(screen) ==
  [screen |-> screen, name |-> << >>, description |-> << >>,
   selectedCategory |-> "", selectedCondition |-> "", images |-> << >>,
   isSubmitting |-> FALSE, request |-> << >>]

\* What a picker resolves with: didCancel, errorCode, or assets.
PickerResults(maxAssets) ==
  {[kind |-> "didCancel", assets |-> << >>],
   [kind |-> "errorCode", assets |-> << >>]}
  \cup {[kind |-> "assets", assets |-> a] :
          a \in UNION {[1..n -> Assets] : n \in 1..maxAssets}}

\* The camera and library buttons are rendered while images.length < 3.
canAddImage_Always == TRUE
canAddImage == Len(form.images) < MaxImages

\* items.filter((_, i) => i !== index)
removeAt(images, index) ==
  SubSeq(images, 1, index - 1) \o SubSeq(images, index + 1, Len(images))

\* onChangeText={setName} / {setTitle}, {setDescription}, and the chips.
setName(t) == form' = [form EXCEPT !.name = t]
setDescription(t) == form' = [form EXCEPT !.description = t]
setSelectedCategory(c) == form' = [form EXCEPT !.selectedCategory = c]
setSelectedCondition(c) == form' = [form EXCEPT !.selectedCondition = c]

\* SubmitItemScreen.tsx ------------------------------------------------
\* handleTakePhoto: appends whatever the camera returns.
handleTakePhoto(result) ==
  /\ form.screen = "SubmitItemScreen"
  /\ canAddImage
  /\ form' = IF result.kind = "assets"
             THEN [form EXCEPT !.images = @ \o result.assets]
             ELSE form

\* handleChooseFromLibrary: appends the selection and keeps the first 3.
handleChooseFromLibrary(result) ==
  /\ form.screen = "SubmitItemScreen"
  /\ canAddImage
  /\ LET newImages == form.images \o result.assets IN
     form' = IF result.kind # "assets" THEN form
             ELSE IF Len(newImages) > MaxImages
             THEN [form EXCEPT !.images = SubSeq(newImages, 1, MaxImages)]
             ELSE [form EXCEPT !.images = newImages]

handleRemoveImage(index) ==
  /\ form.screen = "SubmitItemScreen"
  /\ index \in 1..Len(form.images)
  /\ form' = [form EXCEPT !.images = removeAt(@, index)]

\* The reference an upload returns for a picture.
uploadItemImage(a) == <<"url", a>>

\* handleSubmit: the five required-field tests, then Promise.all over the
\* uploads (one rejection rejects all), then createItem.  uploaded[i] tells
\* whether the upload of image i succeeds, created whether createItem does.
handleSubmit(uploaded, created) ==
  /\ form.screen = "SubmitItemScreen"
  /\ ~form.isSubmitting
  /\ uploaded \in [1..Len(form.images) -> BOOLEAN]
  /\ IF \/ trim(form.name) = << >>
        \/ trim(form.description) = << >>
        \/ form.selectedCategory = ""
        \/ form.selectedCondition = ""
        \/ Len(form.images) = 0
     THEN form' = [form EXCEPT !.request = << >>]
     ELSE IF \E i \in 1..Len(form.images) : ~uploaded[i]
     THEN form' = [form EXCEPT !.request = << >>, !.isSubmitting = FALSE]
     ELSE LET req == [images |-> [i \in 1..Len(form.images) |->
                                     uploadItemImage(form.images[i])]] IN
          \* on success the alert's OK leaves the screen
          form' = IF created
                  THEN [NewForm(form.screen) EXCEPT !.request = <<req>>]
                  ELSE [form EXCEPT !.request = <<req>>,
                                    !.isSubmitting = FALSE]

\* part_005 -----------------------------------------------------------------
\* handleTakePhoto: permission, the limit test, then the first asset.
handleTakePhoto_005(hasPermission, result) ==
  /\ form.screen = "part_005"
  /\ canAddImage
  /\ form' = IF ~hasPermission \/ Len(form.images) >= MaxImages
                \/ result.kind # "assets"
             THEN form
             ELSE [form EXCEPT !.images = Append(@, result.assets[1])]

\* handleChooseFromLibrary: the limit test, permission, selectionLimit 1.
handleChooseFromLibrary_005(storagePermissionGranted, result) ==
  /\ form.screen = "part_005"
  /\ canAddImage
  /\ form' = IF Len(form.images) >= MaxImages \/ ~storagePermissionGranted
                \/ result.kind # "assets"
             THEN form
             ELSE [form EXCEPT !.images = Append(@, result.assets[1])]

removeImage(index) ==
  /\ form.screen = "part_005"
  /\ index \in 1..Len(form.images)
  /\ form' = [form EXCEPT !.images = removeAt(@, index)]

isFormValid == trim(form.name) # << >> /\ Len(form.images) > 0

\* `uploadedUrl.split('/').pop()`: the file name of the uploaded picture.
filename(url) == <<"file", url[2]>>

RECURSIVE uploadedImageUrls(_, _)
\* The loop over the images: a failed upload is skipped, the others push
\* their file name.
uploadedImageUrls(images, uploaded) ==
  IF images = << >> THEN << >>
  ELSE LET n == Len(images)
           front == uploadedImageUrls(SubSeq(images, 1, n - 1), uploaded) IN
       IF uploaded[n] THEN Append(front, filename(uploadItemImage(images[n])))
       ELSE front

\* handleSubmit: isFormValid, the upload loop, then createItem with
\* `images: uploadedImageUrls.length > 0 ? uploadedImageUrls : []`.
handleSubmit_005(uploaded, created) ==
  /\ form.screen = "part_005"
  /\ ~form.isSubmitting
  /\ uploaded \in [1..Len(form.images) -> BOOLEAN]
  /\ IF ~isFormValid
     THEN form' = [form EXCEPT !.request = << >>]
     ELSE LET urls == uploadedImageUrls(form.images, uploaded)
              req == [images |-> IF Len(urls) > 0 THEN urls ELSE << >>] IN
          \* on success the alert's OK resets the form
          form' = IF created
                  THEN [NewForm(form.screen) EXCEPT !.request = <<req>>]
                  ELSE [form EXCEPT !.request = <<req>>,
                                    !.isSubmitting = FALSE]

\* ------------------------------------------------ device storage and tokens
\* Number of responses the server gives to one request and its re-sends.
MaxResponses == 3

AUTH_TOKEN_KEY == "auth_token"
REFRESH_TOKEN_KEY == "refresh_token"
BIOMETRIC_ENABLED_KEY == "biometric_enabled"
BIOMETRIC_EMAIL_KEY == "biometric_email"
BIOMETRIC_CREDENTIALS_KEY == "biometric_credentials"

\* Strings are sequences of characters; << >> is '' (and null for a user).
GoodEmail == <<"a", "@", "b", ".", "c", "d">>
Password1 == <<"p", "a", "s", "s", "w", "d">>
Password2 == <<"q", "w", "e", "r", "t", "y">>
Emails == {GoodEmail}
Passwords == {Password1, Password2}

\* AsyncStorage.setItem / removeItem; `if (value)` of a getItem result.
setItem(st, k, v) == [x \in DOMAIN st \cup {k} |-> IF x = k THEN v ELSE st[x]]
removeItem(st, k) == [x \in DOMAIN st \ {k} |-> st[x]]
getItem(st, k) == IF k \in DOMAIN st THEN st[k] ELSE << >>
truthy(st, k) == getItem(st, k) # << >>

\* apiService.handleLogout: clears both tokens.
clearTokens_OnlyAccess(st) == removeItem(st, AUTH_TOKEN_KEY)
clearTokens(st) == removeItem(removeItem(st, AUTH_TOKEN_KEY), REFRESH_TOKEN_KEY)

\* apiService.setAuthTokens: stores nothing unless both tokens are given.
setAuthTokens(st, accessToken, refreshToken) ==
  IF accessToken = << >> THEN st
  ELSE IF refreshToken = << >> THEN st
  ELSE setItem(setItem(st, AUTH_TOKEN_KEY, accessToken),
               REFRESH_TOKEN_KEY, refreshToken)

\* ------------------------------------------------------------- apiClient
\* HTTP status codes a request can be answered with.
Codes == {200, 401, 500}
\* What the server does with a request: its answers to the request and to
\* its re-sends, and whether the refresh-token endpoint succeeds.
Scripts == [resps : [1..MaxResponses -> Codes], refreshOk : BOOLEAN]

\* `error.response?.status === 401 && !originalRequest._retry`
shouldRefresh_Always(code, retry) == code = 401
shouldRefresh(code, retry) == code = 401 /\ ~retry

RECURSIVE interceptor(_, _, _, _, _, _)
\* The response interceptor, for a request sent with storage st and flag
\* _retry, to which the server answers resps in turn.  Yields the outcome,
\* the storage afterwards, the responses received and the refresh calls.
interceptor(st, retry, resps, refreshOk, received, refreshes) ==
  IF resps = << >>
  THEN [ok |-> FALSE, storage |-> st, received |-> received,
        refreshes |-> refreshes]
  ELSE
    LET code == Head(resps)
        got == Append(received, code) IN
    IF code = 200
    THEN [ok |-> TRUE, storage |-> st, received |-> got,
          refreshes |-> refreshes]
    ELSE IF shouldRefresh(code, retry)
    THEN IF ~truthy(st, REFRESH_TOKEN_KEY)
         THEN [ok |-> FALSE, storage |-> clearTokens(st), received |-> got,
               refreshes |-> refreshes]
         ELSE IF refreshOk
         THEN interceptor(setItem(setItem(st, AUTH_TOKEN_KEY, <<"at2">>),
                                  REFRESH_TOKEN_KEY, <<"rt2">>),
                          TRUE, Tail(resps), refreshOk, got, refreshes + 1)
         ELSE [ok |-> FALSE, storage |-> clearTokens(st), received |-> got,
               refreshes |-> refreshes + 1]
    ELSE [ok |-> FALSE, storage |-> st, received |-> got,
          refreshes |-> refreshes]

\* apiRequest: one request through apiClient.
apiRequest(st, script) ==
  interceptor(st, FALSE, script.resps, script.refreshOk, << >>, 0)

\* One script for each way a request sent with storage st can go.
ScriptsFor(st) ==
  {CHOOSE s \in Scripts : apiRequest(st, s) = outcome :
     outcome \in {apiRequest(st, s) : s \in Scripts}}

\* What is kept of a request: its endpoint and what happened to it.
Trace(url, r) ==
  [url |-> url, received |-> r.received, refreshes |-> r.refreshes,
   ok |-> r.ok]

\* ------------------------------------------------------------ User records
\* The pre-save hook stores bcrypt.hash(password); matchPassword compares.
hash(password) == <<"$2a$10$">> \o password
matchPassword(enteredPassword, stored) == stored = hash(enteredPassword)

\* UserSchema.pre('save'): `if (!this.isModified('password')) { next(); }`
\* does not return, so the two lines that hash this.password run in either
\* case.
preSave(password, isModified) ==
  IF ~isModified
  THEN hash(password)  \* next(), then genSalt and hash
  ELSE hash(password)  \* genSalt and hash

\* An item is created: stats.listings of its owner is incremented and the
\* User record is saved, its password not modified.  Whether the record was
\* loaded with its password (`select: false`) and whether the hook's
\* assignment, made after next(), is part of what is written is left open.
saveUser(email, selected, written) ==
  /\ accounts[email] # << >>
  /\ listings[email] < MaxSaves
  /\ listings' = [listings EXCEPT ![email] = @ + 1]
  /\ accounts' = [accounts EXCEPT
                    ![email] = IF selected /\ written
                               THEN preSave(@, FALSE) ELSE @]
  /\ UNCHANGED <<storage, session, loginScreen, http>>

\* authController.login answers 200 to the right credentials, else 401.
LoginScript(email, password, refreshOk) ==
  [resps |-> [i \in 1..MaxResponses |->
                IF /\ email \in Emails
                   /\ accounts[email] # << >>
                   /\ matchPassword(password, accounts[email])
                THEN 200 ELSE 401],
   refreshOk |-> refreshOk]

\* The shapes of a successful login / register response: the field that
\* carries the access token, and the one that carries the refresh token (""
\* when the response has none).
AccessFields == {"accessToken", "access_token", "token", "auth_token", "jwt"}
RefreshFields == {"refreshToken", "refresh_token"}
Shapes == [access : AccessFields, refresh : RefreshFields \cup {""}]

\* The body of a successful login / register response; << >> is a field the
\* response does not have.
AuthResponse(email, shape) ==
  [f \in AccessFields \cup RefreshFields \cup {"user"} |->
     IF f = "user" THEN email
     ELSE IF f = shape.access THEN <<"at1">>
     ELSE IF f = shape.refresh THEN <<"rt1">>
     ELSE << >>]

\* a || b || ... : the first operand that is truthy, else the last one.
RECURSIVE firstTruthy(_)
firstTruthy(values) ==
  IF Len(values) = 1 \/ Head(values) # << >> THEN Head(values)
  ELSE firstTruthy(Tail(values))

\* authService.login / register: the tokens taken from the response.
accessTokenOf(response) ==
  firstTruthy(<<response.accessToken, response.access_token, response.token,
                response.auth_token, response.jwt>>)
refreshTokenOf(response) ==
  firstTruthy(<<response.refreshToken, response.refresh_token, response.token,
                << >>>>)

\* ------------------------------------------------------------- AuthContext
\* Three versions of the provider: context/AuthContext.tsx, part_014 and
\* part_015.
AuthContexts == {"AuthContext", "part_014", "part_015"}

NewSession(context) ==
  [context |-> context, user |-> << >>, isAuthenticated |-> FALSE,
   isLoading |-> TRUE, checked |-> FALSE]

NewLoginScreen ==
  [biometricsAvailable |-> FALSE, hasBiometricCredentials |-> FALSE,
   prompt |-> << >>, error |-> FALSE]

\* authService.logout: POST /logout, its failure is swallowed.
authService_logout(st, script) == apiRequest(st, script)

\* handleLogout of either version: user and isAuthenticated are cleared, the
\* server is told, both tokens are removed.
handleLogout_KeepTokens(st, script) == authService_logout(st, script).storage
handleLogout(st, script) == clearTokens(authService_logout(st, script).storage)

\* handleLogout of part_015: the storage is cleared, the server is not told.
handleLogout_015(st) == clearTokens(st)

\* checkAuthStatus, the mount effect, with the answers of the server: to the
\* profile request (and whether it carries user data) and to the logout
\* call.  With a token the profile is fetched; a failed fetch, and in
\* AuthContext.tsx an empty profile, logs out.  part_014 takes whatever the
\* fetch resolved to as the user.  part_015 removes both tokens and returns
\* before anything else.
checkAuthStatusWith(profile, hasData, logoutScript) ==
  /\ ~session.checked
  /\ LET r == apiRequest(storage, profile) IN
     IF session.context = "part_015"
     THEN /\ session' = [session EXCEPT !.isAuthenticated = FALSE,
                                        !.isLoading = FALSE, !.checked = TRUE]
          /\ storage' = clearTokens(storage)
          /\ UNCHANGED http
     ELSE IF ~truthy(storage, AUTH_TOKEN_KEY)
     THEN /\ session' = [session EXCEPT !.isLoading = FALSE, !.checked = TRUE]
          /\ UNCHANGED <<storage, http>>
     ELSE IF r.ok /\ (hasData \/ session.context = "part_014")
     THEN /\ session' = [session EXCEPT
                           !.user = IF hasData THEN GoodEmail ELSE << >>,
                           !.isAuthenticated = TRUE,
                           !.isLoading = FALSE, !.checked = TRUE]
          /\ storage' = r.storage
          /\ http' = Trace("/api/auth/validate", r)
     ELSE /\ session' = [session EXCEPT
                           !.user = << >>, !.isAuthenticated = FALSE,
                           !.isLoading = FALSE, !.checked = TRUE]
          /\ storage' = handleLogout(r.storage, logoutScript)
          /\ http' = Trace("/api/auth/logout",
                           authService_logout(r.storage, logoutScript))
  /\ UNCHANGED <<loginScreen, accounts>>

\* A script for the requests that are not made.
NoScript == [resps |-> [i \in 1..MaxResponses |-> 200], refreshOk |-> TRUE]

\* checkAuthStatus with the server answering in any way to the requests made.
checkAuthStatus ==
  IF session.context = "part_015" \/ ~truthy(storage, AUTH_TOKEN_KEY)
  THEN checkAuthStatusWith(NoScript, FALSE, NoScript)
  ELSE \E profile \in ScriptsFor(storage), hasData \in BOOLEAN :
         LET r == apiRequest(storage, profile) IN
         IF r.ok /\ (hasData \/ session.context = "part_014")
         THEN checkAuthStatusWith(profile, hasData, NoScript)
         ELSE \E logoutScript \in ScriptsFor(r.storage) :
                checkAuthStatusWith(profile, hasData, logoutScript)

\* AuthContext.login with authService.login: the request, then the tokens
\* of the response are stored and the user is set.
login(email, password, refreshOk) ==
  \E shape \in Shapes :
  LET r == apiRequest(storage, LoginScript(email, password, refreshOk))
      response == AuthResponse(email, shape) IN
  /\ http' = Trace("/api/auth/login", r)
  /\ storage' = IF r.ok
                THEN setAuthTokens(r.storage, accessTokenOf(response),
                                   refreshTokenOf(response))
                ELSE r.storage
  /\ session' = IF r.ok
                THEN [session EXCEPT !.user = response.user,
                                     !.isAuthenticated = TRUE,
                                     !.isLoading = FALSE]
                ELSE [session EXCEPT !.isLoading = FALSE]

\* AuthContext.register with authService.register; authController.register
\* creates the User (unique email), whose pre-save hook hashes the password.
register(email, password) ==
  /\ session.checked
  /\ ~session.isAuthenticated
  /\ IF email \in Emails /\ accounts[email] = << >>
     THEN /\ accounts' = [accounts EXCEPT ![email] = hash(password)]
          /\ \E shape \in Shapes :
               LET response == AuthResponse(email, shape) IN
               storage' = IF accessTokenOf(response) # << >>
                          THEN setAuthTokens(storage, accessTokenOf(response),
                                             refreshTokenOf(response))
                          ELSE storage
          /\ session' = [session EXCEPT !.user = email,
                                        !.isAuthenticated = TRUE,
                                        !.isLoading = FALSE]
          /\ http' = [url |-> "/api/auth/register", received |-> <<200>>,
                      refreshes |-> 0, ok |-> TRUE]
     ELSE /\ session' = [session EXCEPT !.isLoading = FALSE]
          /\ http' = [url |-> "/api/auth/register", received |-> <<500>>,
                      refreshes |-> 0, ok |-> FALSE]
          /\ UNCHANGED <<accounts, storage>>
  /\ UNCHANGED loginScreen

\* AuthContext.logout.
logout(script) ==
  /\ session.checked
  /\ session.isAuthenticated
  /\ IF session.context = "part_015"
     THEN /\ storage' = handleLogout_015(storage)
          /\ UNCHANGED http
     ELSE /\ http' = Trace("/api/auth/logout",
                           authService_logout(storage, script))
          /\ storage' = handleLogout(storage, script)
  /\ session' = [session EXCEPT !.user = << >>, !.isAuthenticated = FALSE,
                                !.isLoading = FALSE]
  /\ UNCHANGED <<loginScreen, accounts>>

\* Any other authenticated request of the app (items, trades, profile).
request(script) ==
  /\ session.checked
  /\ session.isAuthenticated
  /\ LET r == apiRequest(storage, script) IN
     /\ http' = Trace("/api/items", r)
     /\ storage' = r.storage
  /\ UNCHANGED <<session, loginScreen, accounts>>

\* The app is closed and opened again: the state is gone, the storage stays.
restart ==
  /\ session.checked
  /\ session' = NewSession(session.context)
  /\ loginScreen' = NewLoginScreen
  /\ UNCHANGED <<storage, accounts, http>>

\* ------------------------------------------------- BiometricsManager, login
\* hasStoredCredentials: !!email && !!credentials.
hasStoredCredentials ==
  truthy(storage, BIOMETRIC_EMAIL_KEY) /\ truthy(storage, BIOMETRIC_CREDENTIALS_KEY)

\* enableBiometrics(email, credentials): three setItem calls.
enableBiometrics(st, email, credentials) ==
  setItem(setItem(setItem(st, BIOMETRIC_ENABLED_KEY, <<"true">>),
                  BIOMETRIC_EMAIL_KEY, email),
          BIOMETRIC_CREDENTIALS_KEY, credentials)

disableBiometrics(st) ==
  removeItem(removeItem(removeItem(st, BIOMETRIC_ENABLED_KEY),
                        BIOMETRIC_EMAIL_KEY), BIOMETRIC_CREDENTIALS_KEY)

\* LoginScreen's mount effect.
checkBiometrics(available) ==
  /\ session.checked
  /\ ~session.isAuthenticated
  /\ loginScreen' = [loginScreen EXCEPT
                       !.biometricsAvailable = available,
                       !.hasBiometricCredentials =
                           available /\ hasStoredCredentials]
  /\ UNCHANGED <<storage, session, accounts, http>>

\* handleLogin: blank fields are refused; after a login that succeeded the
\* user is asked whether to enable biometric login.
handleLogin(email, password, refreshOk) ==
  /\ session.checked
  /\ ~session.isAuthenticated
  /\ IF trim(email) = << >> \/ trim(password) = << >>
     THEN /\ loginScreen' = [loginScreen EXCEPT !.error = TRUE]
          /\ UNCHANGED <<storage, session, http>>
     ELSE /\ login(email, password, refreshOk)
          /\ loginScreen' =
               [loginScreen EXCEPT
                  !.error = ~session'.isAuthenticated,
                  !.prompt = IF /\ session'.isAuthenticated
                                /\ loginScreen.biometricsAvailable
                                /\ ~loginScreen.hasBiometricCredentials
                             THEN <<[email |-> email, password |-> password]>>
                             ELSE << >>]
  /\ UNCHANGED accounts

\* The prompt's "Enable": BiometricsManager.enableBiometrics(email, password).
pressEnable ==
  /\ loginScreen.prompt # << >>
  /\ storage' = IF loginScreen.biometricsAvailable
                THEN enableBiometrics(storage, loginScreen.prompt[1].email,
                                      loginScreen.prompt[1].password)
                ELSE storage
  /\ loginScreen' = [loginScreen EXCEPT !.prompt = << >>]
  /\ UNCHANGED <<session, accounts, http>>

\* The prompt's "Not Now".
pressNotNow ==
  /\ loginScreen.prompt # << >>
  /\ loginScreen' = [loginScreen EXCEPT !.prompt = << >>]
  /\ UNCHANGED <<storage, session, accounts, http>>

\* handleBiometricLogin with BiometricsManager.authenticate: the stored
\* email and credentials are read and, after the prompt, used to log in.
handleBiometricLogin(success, refreshOk) ==
  /\ session.checked
  /\ ~session.isAuthenticated
  /\ loginScreen.biometricsAvailable
  /\ loginScreen.hasBiometricCredentials
  /\ IF getItem(storage, BIOMETRIC_ENABLED_KEY) # <<"true">>
     THEN /\ loginScreen' = [loginScreen EXCEPT !.error = TRUE]
          /\ UNCHANGED <<storage, session, http>>
     ELSE IF ~hasStoredCredentials
     THEN /\ storage' = disableBiometrics(storage)
          /\ loginScreen' = [loginScreen EXCEPT !.error = TRUE]
          /\ UNCHANGED <<session, http>>
     ELSE IF ~success
     THEN /\ loginScreen' = [loginScreen EXCEPT !.error = TRUE]
          /\ UNCHANGED <<storage, session, http>>
     ELSE /\ login(getItem(storage, BIOMETRIC_EMAIL_KEY),
                   getItem(storage, BIOMETRIC_CREDENTIALS_KEY), refreshOk)
          /\ loginScreen' = [loginScreen EXCEPT
                               !.error = ~session'.isAuthenticated]
  /\ UNCHANGED accounts

\* ---------------------------------------------------------- RegisterScreen
\* `password.length < 6`
MinPasswordLength == 6

\* The inputs the form is tried with.
TestEmails ==
  {<< >>, GoodEmail,
   <<"a", "@", "b">>, <<"@", "b", ".", "c">>, <<"a", "@", ".", "c">>,
   <<"a", "@", "b", ".">>, <<"a", " ", "@", "b", ".", "c">>,
   <<"a", "@", "@", "b", ".", "c">>, <<"a", "b", ".", "c">>,
   <<"a", "@", "b", ".", "c", ".", "d">>}
TestPasswords ==
  {<< >>, <<"p", "a", "s", "s", "w">>, Password1, Password2,
   <<"p", "a", "s", "s", "w", "d", "1">>}

\* /^[^\s@]+@[^\s@]+\.[^\s@]+$/ : one @, no white space, something in
\* front of the @, and behind it a dot with something on both sides.
emailRegexTest(e) ==
  \E at \in 1..Len(e) :
    /\ e[at] = "@"
    /\ at > 1
    /\ \A i \in 1..Len(e) : e[i] = " " \/ e[i] = "@" => i = at
    /\ \E dot \in (at + 2)..(Len(e) - 1) : e[dot] = "."

NewRegisterScreen ==
  [name |-> << >>, email |-> << >>, password |-> << >>,
   confirmPassword |-> << >>, nameError |-> "", emailError |-> "",
   passwordError |-> "", confirmPasswordError |-> "", generalError |-> "",
   submitted |-> FALSE, request |-> << >>]

\* validateForm: the four field errors it sets.
validateForm_NoConfirm ==
  [nameError |-> IF trim(reg.name) = << >> THEN "Name is required" ELSE "",
   emailError |->
     IF reg.email = << >> THEN "Email is required"
     ELSE IF ~emailRegexTest(reg.email)
     THEN "Please enter a valid email address" ELSE "",
   passwordError |->
     IF reg.password = << >> THEN "Password is required"
     ELSE IF Len(reg.password) < MinPasswordLength
     THEN "Password must be at least 6 characters" ELSE "",
   confirmPasswordError |->
     IF reg.confirmPassword = << >> THEN "Please confirm your password"
     ELSE ""]
validateForm ==
  [nameError |-> IF trim(reg.name) = << >> THEN "Name is required" ELSE "",
   emailError |->
     IF reg.email = << >> THEN "Email is required"
     ELSE IF ~emailRegexTest(reg.email)
     THEN "Please enter a valid email address" ELSE "",
   passwordError |->
     IF reg.password = << >> THEN "Password is required"
     ELSE IF Len(reg.password) < MinPasswordLength
     THEN "Password must be at least 6 characters" ELSE "",
   confirmPasswordError |->
     IF reg.confirmPassword = << >> THEN "Please confirm your password"
     ELSE IF reg.password # reg.confirmPassword
     THEN "Passwords do not match" ELSE ""]

\* validateForm's result: no error was set.
isValid(errors) ==
  /\ errors.nameError = ""
  /\ errors.emailError = ""
  /\ errors.passwordError = ""
  /\ errors.confirmPasswordError = ""

\* handleRegister: validateForm, then register(name, email, password); a
\* refusal of the server is shown as an email error (duplicate) or as a
\* general error.
handleRegister ==
  LET errors == validateForm
      shown == [reg EXCEPT !.nameError = errors.nameError,
                           !.emailError = errors.emailError,
                           !.passwordError = errors.passwordError,
                           !.confirmPasswordError = errors.confirmPasswordError,
                           !.generalError = "",
                           !.submitted = TRUE] IN
  IF ~isValid(errors)
  THEN /\ reg' = [shown EXCEPT !.request = << >>]
       /\ UNCHANGED authVars
  ELSE /\ register(reg.email, reg.password)
       /\ reg' = [shown EXCEPT
                    !.request = <<[name |-> reg.name, email |-> reg.email,
                                   password |-> reg.password]>>,
                    !.emailError =
                       IF reg.email \in Emails /\ accounts[reg.email] # << >>
                       THEN "An account with this email already exists"
                       ELSE "",
                    !.generalError =
                       IF reg.email \notin Emails
                       THEN "Registration failed" ELSE ""]

\* ------------------------------------------------------------- SwipeScreen
\* The order in which the server lists items.
ItemOrder == <<"I1", "I2", "I3">>

\* tradeController.getPotentialMatches (GET /matches?itemId=): the items
\* that are available and not owned by the caller.
IsCandidate(c, i) == status[i] = "available" /\ Owner[i] # c

potentialMatches(c) ==
  LET matches == SelectSeq(ItemOrder, LAMBDA i : IsCandidate(c, i)) IN
  [n \in 1..Len(matches) |->
     [id |-> matches[n], ownerId |-> Owner[matches[n]],
      status |-> status[matches[n]]]]

\* tradeService.getPotentialMatches: each match of the response becomes a
\* card; `status: match.status || 'available'`.
toPotentialTrade(match) ==
  [id |-> match.id,
   item |-> [id |-> match.id, owner |-> match.ownerId,
             status |-> IF match.status # "" THEN match.status
                        ELSE "available"]]

\* The four placeholder cards of the screen.
mockTradeItems ==
  <<[id |-> "201", item |-> [id |-> "101", owner |-> "456",
                             status |-> "available"]],
    [id |-> "202", item |-> [id |-> "102", owner |-> "789",
                             status |-> "available"]],
    [id |-> "203", item |-> [id |-> "103", owner |-> "321",
                             status |-> "available"]],
    [id |-> "204", item |-> [id |-> "104", owner |-> "654",
                             status |-> "available"]]>>

NewDeck(user, selectedItemId) ==
  [user |-> user, selectedItemId |-> selectedItemId,
   potentialTrades |-> << >>, currentIndex |-> 0, isLoading |-> TRUE,
   error |-> FALSE, matchResult |-> << >>, sent |-> << >>]

\* fetchPotentialTrades on the screen state d: without a selected item an
\* error is shown; else the API is asked, and when the call fails or
\* returns nothing the placeholder cards are shown instead.
fetched(d, apiOk) ==
  IF d.selectedItemId = ""
  THEN [d EXCEPT !.error = TRUE, !.isLoading = FALSE]
  ELSE LET matches == potentialMatches(d.user)
           response == IF apiOk
                       THEN [n \in 1..Len(matches) |->
                               toPotentialTrade(matches[n])]
                       ELSE mockTradeItems IN
       [d EXCEPT !.potentialTrades = IF Len(response) > 0 THEN response
                                     ELSE mockTradeItems,
                 !.error = FALSE, !.isLoading = FALSE]

\* The mount effect.
fetchPotentialTrades(apiOk) ==
  /\ deck.isLoading
  /\ deck' = fetched(deck, apiOk)
  /\ UNCHANGED tradeVars

\* "Try Again", shown with the error and when no card is left.
tryAgain(apiOk) ==
  /\ ~deck.isLoading
  /\ deck.error \/ deck.currentIndex >= Len(deck.potentialTrades)
  /\ deck' = fetched([deck EXCEPT !.currentIndex = 0, !.sent = << >>], apiOk)
  /\ UNCHANGED tradeVars

\* What the handlers made by the first render see: panResponder is created
\* once (useRef), so a gesture runs the swipeLeft and swipeRight of that
\* render, and these the state of that render.
firstRender == [potentialTrades |-> << >>, currentIndex |-> 0]

\* The current card takes gestures and the two buttons are shown.
cardShown ==
  /\ ~deck.isLoading
  /\ ~deck.error
  /\ deck.matchResult = << >>
  /\ deck.currentIndex < Len(deck.potentialTrades)

\* handleProposeTrade of a render with the given potentialTrades and
\* currentIndex.  The request reaches the server unless the network fails;
\* a request the server refuses, and one for an id that is no item, throws,
\* and the alert's OK moves to the next card.
handleProposeTrade(potentialTrades, currentIndex, apiOk) ==
  IF currentIndex >= Len(potentialTrades) \/ deck.selectedItemId = ""
  THEN /\ deck' = [deck EXCEPT !.sent = << >>]
       /\ UNCHANGED tradeVars
  ELSE
    LET currentTrade == potentialTrades[currentIndex + 1]
        tradeRequest == [offeredItemId |-> deck.selectedItemId,
                         requestedItemId |-> currentTrade.item.id] IN
    IF apiOk /\ tradeRequest.requestedItemId \in Items
    THEN /\ createTrade(deck.user, tradeRequest.offeredItemId,
                        tradeRequest.requestedItemId)
         /\ deck' = IF last'.res = "ok" /\ last'.matched
                    THEN [deck EXCEPT
                            !.sent = <<tradeRequest>>,
                            !.matchResult = <<currentTrade.item.id>>]
                    ELSE [deck EXCEPT !.sent = <<tradeRequest>>,
                                      !.currentIndex = currentIndex + 1]
    ELSE /\ deck' = [deck EXCEPT !.sent = <<tradeRequest>>,
                                 !.currentIndex = currentIndex + 1]
         /\ UNCHANGED tradeVars

\* moveToNextCard of a render with the given currentIndex.
moveToNextCard(currentIndex) ==
  /\ deck' = [deck EXCEPT !.currentIndex = currentIndex + 1, !.sent = << >>]
  /\ UNCHANGED tradeVars

\* A swipe to the right past SWIPE_THRESHOLD: swipeRight of the first render.
gestureRight ==
  /\ cardShown
  /\ \E apiOk \in BOOLEAN :
       handleProposeTrade(firstRender.potentialTrades,
                          firstRender.currentIndex, apiOk)

\* A swipe to the left past -SWIPE_THRESHOLD: swipeLeft of the first render.
gestureLeft ==
  /\ cardShown
  /\ moveToNextCard(firstRender.currentIndex)

\* The like button: swipeRight of the current render.
pressLike(apiOk) ==
  /\ cardShown
  /\ handleProposeTrade(deck.potentialTrades, deck.currentIndex, apiOk)

\* The pass button: swipeLeft of the current render.
pressPass ==
  /\ cardShown
  /\ moveToNextCard(deck.currentIndex)

\* "Continue" of the match modal.  (The modal opens on a response with
\* matched: true, which the server of this model never gives, see C1; the
\* step is therefore no part of NextSwipe.)
handleContinueSwiping ==
  /\ deck.matchResult # << >>
  /\ deck' = [deck EXCEPT !.matchResult = << >>, !.sent = << >>,
                          !.currentIndex = deck.currentIndex + 1]
  /\ UNCHANGED tradeVars

\* ---------------------------------------------------------------- the system
NoResponse == Response("none", "ok", FALSE, 0)

InitStore ==
  /\ status = [i \in Items |-> ItemDefaultStatus]
  /\ trades = << >>
  /\ notifications = << >>
  /\ stats = [u \in Users |-> 0]
  /\ last = NoResponse

\* A fresh install: nothing stored, no account, the provider just mounted.
InitAuth(context) ==
  /\ storage = [k \in {} |-> << >>]
  /\ session = NewSession(context)
  /\ loginScreen = NewLoginScreen
  /\ accounts = [e \in Emails |-> << >>]
  /\ http = [url |-> "", received |-> << >>, refreshes |-> 0, ok |-> FALSE]

\* A screen or provider that the navigator has not mounted has no state.
NotMounted == "not mounted"

\* The server alone: no part of the app is mounted.
Init ==
  /\ InitStore
  /\ screenNotifications = NotMounted
  /\ form = NotMounted
  /\ storage = [k \in {} |-> << >>]
  /\ session = NotMounted
  /\ loginScreen = NotMounted
  /\ accounts = [e \in Emails |-> << >>]
  /\ http = [url |-> "", received |-> << >>, refreshes |-> 0, ok |-> FALSE]
  /\ reg = NotMounted
  /\ deck = NotMounted
  /\ listings = [e \in Emails |-> 0]
  /\ home = NotMounted

\* The trade workflow: the requests of all users against the store.
Next ==
  \/ \E c \in Users, o \in Items, r \in Items :
       createTrade(c, o, r) /\ UNCHANGED clientVars
  \/ \E c \in Users, t \in 1..MaxTrades :
       acceptTrade(c, t) /\ UNCHANGED clientVars
  \/ \E c \in Users, t \in 1..MaxTrades :
       rejectTrade(c, t) /\ UNCHANGED clientVars
  \/ \E c \in Users, i \in Items :
       deleteItem(c, i) /\ UNCHANGED clientVars
  \/ \E c \in Users, i \in Items, s \in ItemStatus :
       updateItem(c, i, s) /\ UNCHANGED clientVars

Spec == Init /\ [][Next]_vars

\* The server and the notifications screen.
InitNotifications ==
  /\ InitStore
  /\ screenNotifications = mockNotifications
  /\ form = NotMounted
  /\ InitAuth("AuthContext")
  /\ reg = NotMounted
  /\ deck = NotMounted
  /\ listings = [e \in Emails |-> 0]
  /\ home = NotMounted

\* Notifications: the workflow's operations emit them, the recipients mark
\* them read on the server, and the screen marks the entries of its list.
NextNotifications ==
  \/ \E c \in Users, o \in Items, r \in Items :
       createTrade(c, o, r) /\ UNCHANGED clientVars
  \/ \E c \in Users, t \in 1..MaxTrades :
       acceptTrade(c, t) /\ UNCHANGED clientVars
  \/ \E c \in Users, n \in 1..(2 * MaxTrades) :
       markRead(c, n) /\ UNCHANGED clientVars
  \/ \E c \in Users : markAllRead(c) /\ UNCHANGED clientVars
  \/ \E id \in DOMAIN screenNotifications :
       /\ markAsRead(id)
       /\ UNCHANGED <<tradeVars, form, authVars, reg, deck, listings, home>>
  \/ /\ markAllAsRead
     /\ UNCHANGED <<tradeVars, form, authVars, reg, deck, listings, home>>

SpecNotifications == InitNotifications /\ [][NextNotifications]_vars

\* The submission screen, either version of it.
InitSubmit ==
  /\ InitStore
  /\ screenNotifications = NotMounted
  /\ form \in {NewForm(screen) : screen \in SubmitScreens}
  /\ InitAuth("AuthContext")
  /\ reg = NotMounted
  /\ deck = NotMounted
  /\ listings = [e \in Emails |-> 0]
  /\ home = NotMounted

exceptForm ==
  <<tradeVars, screenNotifications, authVars, reg, deck, listings, home>>

NextSubmit ==
  \/ \E t \in Texts : setName(t) /\ UNCHANGED exceptForm
  \/ \E t \in Texts \ {<<" ">>} : setDescription(t) /\ UNCHANGED exceptForm
  \/ \E c \in Choices : setSelectedCategory(c) /\ UNCHANGED exceptForm
  \/ \E c \in Choices : setSelectedCondition(c) /\ UNCHANGED exceptForm
  \/ \E result \in PickerResults(1) :
       handleTakePhoto(result) /\ UNCHANGED exceptForm
  \/ \E result \in PickerResults(SelectionLimit) :
       handleChooseFromLibrary(result) /\ UNCHANGED exceptForm
  \/ \E index \in 1..MaxImages :
       handleRemoveImage(index) /\ UNCHANGED exceptForm
  \/ \E uploaded \in UNION {[1..n -> BOOLEAN] : n \in 0..MaxImages},
        created \in BOOLEAN :
       handleSubmit(uploaded, created) /\ UNCHANGED exceptForm
  \/ \E hasPermission \in BOOLEAN, result \in PickerResults(1) :
       handleTakePhoto_005(hasPermission, result) /\ UNCHANGED exceptForm
  \/ \E granted \in BOOLEAN, result \in PickerResults(1) :
       handleChooseFromLibrary_005(granted, result) /\ UNCHANGED exceptForm
  \/ \E index \in 1..MaxImages :
       removeImage(index) /\ UNCHANGED exceptForm
  \/ \E uploaded \in UNION {[1..n -> BOOLEAN] : n \in 0..MaxImages},
        created \in BOOLEAN :
       handleSubmit_005(uploaded, created) /\ UNCHANGED exceptForm

SpecSubmit == InitSubmit /\ [][NextSubmit]_vars

\* Authentication: the provider, the login screen, biometrics, the HTTP
\* client and the User collection behind them.
InitAuthentication ==
  /\ InitStore
  /\ screenNotifications = NotMounted
  /\ form = NotMounted
  /\ \E context \in AuthContexts : InitAuth(context)
  /\ reg = NotMounted
  /\ deck = NotMounted
  /\ listings = [e \in Emails |-> 0]
  /\ home = NotMounted

exceptAuth ==
  <<tradeVars, screenNotifications, form, reg, deck, listings, home>>

NextAuthentication ==
  \/ checkAuthStatus /\ UNCHANGED exceptAuth
  \/ \E email \in Emails, password \in Passwords :
       register(email, password) /\ UNCHANGED exceptAuth
  \/ \E available \in BOOLEAN :
       checkBiometrics(available) /\ UNCHANGED exceptAuth
  \/ \E email \in Emails \cup {<<" ">>}, password \in Passwords \cup {<< >>},
        refreshOk \in BOOLEAN :
       handleLogin(email, password, refreshOk) /\ UNCHANGED exceptAuth
  \/ pressEnable /\ UNCHANGED exceptAuth
  \/ pressNotNow /\ UNCHANGED exceptAuth
  \/ \E success \in BOOLEAN, refreshOk \in BOOLEAN :
       handleBiometricLogin(success, refreshOk) /\ UNCHANGED exceptAuth
  \/ \E script \in ScriptsFor(storage) : logout(script) /\ UNCHANGED exceptAuth
  \/ \E script \in ScriptsFor(storage) : request(script) /\ UNCHANGED exceptAuth
  \/ restart /\ UNCHANGED exceptAuth

SpecAuthentication == InitAuthentication /\ [][NextAuthentication]_vars

\* The registration screen, opened by a signed-out user (with or without an
\* account of that email on the server) and filled with any of the inputs.
InitRegister ==
  /\ InitStore
  /\ screenNotifications = NotMounted
  /\ form = NotMounted
  /\ storage = [k \in {} |-> << >>]
  /\ session = [NewSession("AuthContext") EXCEPT !.isLoading = FALSE,
                                                  !.checked = TRUE]
  /\ loginScreen = NotMounted
  /\ accounts \in [Emails -> {<< >>, hash(Password1)}]
  /\ deck = NotMounted
  /\ listings = [e \in Emails |-> 0]
  /\ home = NotMounted
  /\ http = [url |-> "", received |-> << >>, refreshes |-> 0, ok |-> FALSE]
  /\ \E name \in Texts \cup {<<"a", " ">>}, email \in TestEmails,
        password \in TestPasswords, confirmPassword \in TestPasswords :
       reg = [NewRegisterScreen EXCEPT !.name = name, !.email = email,
                                       !.password = password,
                                       !.confirmPassword = confirmPassword]

NextRegister ==
  /\ handleRegister
  /\ UNCHANGED <<tradeVars, screenNotifications, form, loginScreen, deck,
               listings, home>>

SpecRegister == InitRegister /\ [][NextRegister]_vars

\* The swipe screen of a user who picked one of their items (or came without
\* one), while the users' requests change the items on the server.
InitSwipe ==
  /\ InitStore
  /\ screenNotifications = NotMounted
  /\ form = NotMounted
  /\ InitAuth("AuthContext")
  /\ reg = NotMounted
  /\ \E user \in Users :
       \E selectedItemId \in {i \in Items : Owner[i] = user} \cup {""} :
         deck = NewDeck(user, selectedItemId)
  /\ listings = [e \in Emails |-> 0]
  /\ home = NotMounted

exceptDeck == <<screenNotifications, form, authVars, reg, listings, home>>

NextSwipe ==
  \/ \E apiOk \in BOOLEAN : fetchPotentialTrades(apiOk) /\ UNCHANGED exceptDeck
  \/ \E apiOk \in BOOLEAN : tryAgain(apiOk) /\ UNCHANGED exceptDeck
  \/ gestureRight /\ UNCHANGED exceptDeck
  \/ gestureLeft /\ UNCHANGED exceptDeck
  \/ \E apiOk \in BOOLEAN : pressLike(apiOk) /\ UNCHANGED exceptDeck
  \/ pressPass /\ UNCHANGED exceptDeck
  \/ \E c \in Users, o \in Items, r \in Items :
       createTrade(c, o, r) /\ UNCHANGED clientVars
  \/ \E c \in Users, t \in 1..MaxTrades :
       acceptTrade(c, t) /\ UNCHANGED clientVars
  \/ \E c \in Users, i \in Items :
       deleteItem(c, i) /\ UNCHANGED clientVars

SpecSwipe == InitSwipe /\ [][NextSwipe]_vars

\* The User records: registration, saves after item creations, and the
\* logins that compare the password with the stored hash.
InitUser ==
  /\ InitStore
  /\ screenNotifications = NotMounted
  /\ form = NotMounted
  /\ storage = [k \in {} |-> << >>]
  /\ session = [NewSession("AuthContext") EXCEPT !.isLoading = FALSE,
                                                  !.checked = TRUE]
  /\ loginScreen = NewLoginScreen
  /\ accounts = [e \in Emails |-> << >>]
  /\ http = [url |-> "", received |-> << >>, refreshes |-> 0, ok |-> FALSE]
  /\ reg = NotMounted
  /\ deck = NotMounted
  /\ listings = [e \in Emails |-> 0]
  /\ home = NotMounted

exceptUser == <<tradeVars, screenNotifications, form, reg, deck, home>>

NextUser ==
  \/ \E email \in Emails, password \in Passwords :
       register(email, password) /\ UNCHANGED <<exceptUser, listings>>
  \/ \E email \in Emails, password \in Passwords, refreshOk \in BOOLEAN :
       handleLogin(email, password, refreshOk)
       /\ UNCHANGED <<exceptUser, listings>>
  \/ \E script \in ScriptsFor(storage) :
       logout(script) /\ UNCHANGED <<exceptUser, listings>>
  \/ \E email \in Emails, selected \in BOOLEAN, written \in BOOLEAN :
       saveUser(email, selected, written) /\ UNCHANGED exceptUser

SpecUser == InitUser /\ [][NextUser]_vars

\* --------------------------------------------------------------- home screen
\* HomeScreen's state hooks (items, isLoading, isSelectionMode, selectedItems,
\* isDeleting), for the signed-in user.  batch is the selectedItems value the
\* running batch delete closed over, pending the delete requests of the batch
\* not answered yet, succeeded those the server carried out, and failed tells
\* that Promise.all has rejected.
NewHome(user) ==
  [user |-> user, items |-> {}, isLoading |-> TRUE, isSelectionMode |-> FALSE,
   selectedItems |-> {}, isDeleting |-> FALSE, batch |-> {}, pending |-> {},
   succeeded |-> {}, failed |-> FALSE]

\* The ids of the two placeholder items of the screen.
mockItems == {"1", "2"}

\* GET /api/items/user: the user's items that are not removed.
getUserItems(user) ==
  {i \in Items : Owner[i] = user /\ status[i] # "removed"}

\* The mount effect: the user's items, or the placeholders when the request
\* failed.
loadItems(apiOk) ==
  /\ home.isLoading
  /\ home' = [home EXCEPT !.items = IF apiOk THEN getUserItems(home.user)
                                    ELSE mockItems,
                          !.isLoading = FALSE]
  /\ UNCHANGED tradeVars

toggleSelectionMode ==
  /\ ~home.isLoading
  /\ home' = [home EXCEPT !.isSelectionMode = ~home.isSelectionMode,
                          !.selectedItems = {}]
  /\ UNCHANGED tradeVars

toggleItemSelection(itemId) ==
  IF itemId \in home.selectedItems
  THEN [home EXCEPT !.selectedItems = home.selectedItems \ {itemId}]
  ELSE [home EXCEPT !.selectedItems = home.selectedItems \cup {itemId}]

\* A press on the card of an item while selecting.
handleCardPress(itemId) ==
  /\ ~home.isLoading
  /\ itemId \in home.items
  /\ home.isSelectionMode
  /\ home' = toggleItemSelection(itemId)
  /\ UNCHANGED tradeVars

\* A long press on the card of an item.
onLongPress(itemId) ==
  /\ ~home.isLoading
  /\ itemId \in home.items
  /\ ~home.isSelectionMode
  /\ home' = [toggleItemSelection(itemId) EXCEPT !.isSelectionMode = TRUE]
  /\ UNCHANGED tradeVars

\* handleBatchDelete with the alert's Delete pressed, up to the await: one
\* delete request per selected item is sent.  A batch starts once the requests
\* of the batch before it are answered.
handleBatchDelete ==
  /\ home.isSelectionMode
  /\ ~home.isDeleting
  /\ home.selectedItems # {}
  /\ home.pending = {}
  /\ home' = [home EXCEPT !.isDeleting = TRUE,
                          !.batch = home.selectedItems,
                          !.pending = home.selectedItems,
                          !.succeeded = {},
                          !.failed = FALSE]
  /\ UNCHANGED tradeVars

\* The continuation of handleBatchDelete after `await Promise.all`: the try
\* block's rest when every request was fulfilled, the catch block when one was
\* rejected, and the finally block.
afterPromiseAll(h, rejected) ==
  IF rejected
  THEN [h EXCEPT !.isDeleting = FALSE, !.failed = TRUE]
  ELSE [h EXCEPT !.items = h.items \ h.batch,
                 !.selectedItems = {},
                 !.isSelectionMode = FALSE,
                 !.isDeleting = FALSE]

\* itemService.deleteItem(id) of the batch is answered: the request reached
\* the server (apiOk) and the server carried it out or refused it, or it did
\* not.  Promise.all rejects with the first rejected request and is fulfilled
\* with the last fulfilled one; the answers after a rejection change nothing
\* on the screen.
deleteRequest(id, apiOk) ==
  /\ id \in home.pending
  /\ LET served == apiOk /\ id \in Items
         fulfilled == served /\ DeleteError(home.user, id) = "ok"
         h == [home EXCEPT !.pending = home.pending \ {id},
                           !.succeeded = IF fulfilled
                                         THEN home.succeeded \cup {id}
                                         ELSE home.succeeded]
     IN /\ IF served THEN deleteItem(home.user, id)
           ELSE IF apiOk
           THEN /\ last' = Response("delete", "NotFoundError", FALSE, 0)
                /\ UNCHANGED <<status, trades, notifications, stats>>
           ELSE UNCHANGED tradeVars
        /\ home' = IF home.failed THEN h
                   ELSE IF ~fulfilled THEN afterPromiseAll(h, TRUE)
                   ELSE IF h.pending = {} THEN afterPromiseAll(h, FALSE)
                   ELSE h

\* The home screen of user A, who owns two items, while the users' trade
\* proposals change the items on the server.
InitHome ==
  /\ InitStore
  /\ screenNotifications = NotMounted
  /\ form = NotMounted
  /\ InitAuth("AuthContext")
  /\ reg = NotMounted
  /\ deck = NotMounted
  /\ listings = [e \in Emails |-> 0]
  /\ home = NewHome("A")

exceptHome == <<screenNotifications, form, authVars, reg, deck, listings>>

NextHome ==
  \/ \E apiOk \in BOOLEAN : loadItems(apiOk) /\ UNCHANGED exceptHome
  \/ toggleSelectionMode /\ UNCHANGED exceptHome
  \/ \E itemId \in Items \cup mockItems :
       handleCardPress(itemId) /\ UNCHANGED exceptHome
  \/ \E itemId \in Items \cup mockItems :
       onLongPress(itemId) /\ UNCHANGED exceptHome
  \/ handleBatchDelete /\ UNCHANGED exceptHome
  \/ \E id \in Items \cup mockItems, apiOk \in BOOLEAN :
       deleteRequest(id, apiOk) /\ UNCHANGED exceptHome
  \/ \E c \in Users, o \in Items, r \in Items :
       createTrade(c, o, r) /\ UNCHANGED clientVars

SpecHome == InitHome /\ [][NextHome]_vars

\* ================================================================ properties
\* Helpers of the properties below.  A step of an operation is told by the
\* operation's action; the test of last'.op in front of it only spares
\* evaluating the action on the steps of the other operations.
StoreUnchanged == UNCHANGED <<status, trades, notifications, stats>>

\* The notifications a step adds.
Added == SubSeq(notifications', Len(notifications) + 1, Len(notifications'))

CountAdded(u, type) ==
  Cardinality({k \in 1..Len(Added) : Added[k].user = u /\ Added[k].type = type})

\* C1: when B already has a pending proposal (itemB -> itemA) and A then
\* proposes (itemA -> itemB), propose succeeds with matched = true, both
\* Trades end accepted, both items end traded, both users' stats.trades grow
\* by exactly 1 and exactly one match Notification is created per party.
C1_MatchOnReciprocal ==
  [][last'.op = "propose" => \A c \in Users, o \in Items, r \in Items :
       (/\ Owner[o] = c
        /\ Owner[r] # c
        /\ PendingFor(r, o) # {}
        /\ createTrade(c, o, r))
       => (/\ last'.res = "ok"
           /\ last'.matched = TRUE
           /\ Len(trades') = Len(trades) + 1
           /\ trades'[Len(trades')].status = "accepted"
           /\ \A m \in PendingFor(r, o) : trades'[m].status = "accepted"
           /\ status'[o] = "traded"
           /\ status'[r] = "traded"
           /\ stats'[c] = stats[c] + 1
           /\ stats'[Owner[r]] = stats[Owner[r]] + 1
           /\ CountAdded(c, "match") = 1
           /\ CountAdded(Owner[r], "match") = 1)]_vars

\* C2: a proposal of an available item o by its owner for an available item
\* r of another user, with no reciprocal pending Trade, creates exactly one
\* new Trade {o, r, pending}, moves o to pending, leaves r available, creates
\* one trade-type Notification for r's owner and returns matched = false.
C2_NonMatchingProposal ==
  [][last'.op = "propose" => \A c \in Users, o \in Items, r \in Items :
       (/\ Owner[o] = c
        /\ Owner[r] # c
        /\ status[o] = "available"
        /\ status[r] = "available"
        /\ PendingFor(r, o) = {}
        /\ createTrade(c, o, r))
       => (/\ last'.res = "ok"
           /\ last'.matched = FALSE
           /\ Len(trades') = Len(trades) + 1
           /\ SubSeq(trades', 1, Len(trades)) = trades
           /\ trades'[Len(trades')].offeredItem = o
           /\ trades'[Len(trades')].requestedItem = r
           /\ trades'[Len(trades')].status = "pending"
           /\ status' = [status EXCEPT ![o] = "pending"]
           /\ status'[r] = "available"
           /\ Len(Added) = 1
           /\ CountAdded(Owner[r], "trade") = 1
           /\ stats' = stats)]_vars

\* A non-matching proposal has just been made: its Trade is pending, the
\* offered item pending and the requested item still available.
C2_Witness ==
  /\ last.op = "propose"
  /\ last.res = "ok"
  /\ last.matched = FALSE
  /\ trades[last.trade].status = "pending"
  /\ status[trades[last.trade].offeredItem] = "pending"
  /\ status[trades[last.trade].requestedItem] = "available"
  /\ notifications[Len(notifications)].type = "trade"
  /\ notifications[Len(notifications)].user = trades[last.trade].respondedBy

\* Trades that reference item i and are in one of the given statuses.
Referencing(i, sts) ==
  {t \in TradeIds : /\ trades[t].status \in sts
                    /\ i \in {trades[t].offeredItem, trades[t].requestedItem}}

Offering(i, sts) ==
  {t \in TradeIds : trades[t].status \in sts /\ trades[t].offeredItem = i}

\* C3 (as stated): every traded item is referenced by exactly one Trade in
\* status accepted or completed, and no available item is referenced, as
\* offeredItem or requestedItem, by a pending Trade.
C3_StatusConsistency ==
  \A i \in Items :
    /\ status[i] = "traded"
         => Cardinality(Referencing(i, {"accepted", "completed"})) = 1
    /\ status[i] = "available" => Referencing(i, {"pending"}) = {}

\* C3 (amended): every traded item is referenced by exactly one Trade in
\* status accepted or completed, and no available item is the offeredItem
\* of a pending Trade.
C3_StatusConsistencyOffered ==
  \A i \in Items :
    /\ status[i] = "traded"
         => Cardinality(Referencing(i, {"accepted", "completed"})) = 1
    /\ status[i] = "available" => Offering(i, {"pending"}) = {}

\* Some item is traded under its accepted Trade while a pending Trade
\* requests an item that is still available.
C3_Witness ==
  /\ \E i \in Items : /\ status[i] = "traded"
                      /\ Referencing(i, {"accepted", "completed"}) # {}
  /\ \E t \in TradeIds : /\ trades[t].status = "pending"
                         /\ status[trades[t].requestedItem] = "available"

\* The status moves of the item lifecycle.
Forward == {<<"available", "pending">>, <<"pending", "traded">>,
            <<"available", "removed">>}

\* A step that creates a Trade does not offer a traded or removed item.
NoReofferOfTerminal ==
  Len(trades') > Len(trades)
    => status[trades'[Len(trades')].offeredItem] \notin {"traded", "removed"}

\* C4 (as stated): an item's status only moves along available -> pending ->
\* traded or available -> removed and never returns to an earlier status,
\* and a traded or removed item is never the offered item of a new Trade.
C4_OneDirectional ==
  [][/\ \A i \in Items :
          status'[i] = status[i] \/ <<status[i], status'[i]>> \in Forward
     /\ NoReofferOfTerminal]_vars

\* C4 (amended): an item's status only moves along available -> pending ->
\* traded or available -> removed, or back from pending to available when
\* its proposal is rejected (release); traded and removed are never left,
\* and a traded or removed item is never the offered item of a new Trade.
C4_OneDirectionalButRelease ==
  [][/\ \A i \in Items :
          \/ status'[i] = status[i]
          \/ <<status[i], status'[i]>> \in Forward
          \/ /\ <<status[i], status'[i]>> = <<"pending", "available">>
             /\ last'.op = "reject"
             /\ last'.res = "ok"
             /\ trades[last'.trade].offeredItem = i
     /\ NoReofferOfTerminal]_vars

\* A rejected proposal has released its item, after other items reached
\* the terminal statuses traded and removed.
C4_Witness ==
  /\ last.op = "reject"
  /\ last.res = "ok"
  /\ status[trades[last.trade].offeredItem] = "available"
  /\ \E i \in Items : status[i] \in {"traded", "removed"}

\* C5: at most one pending Trade exists per (offeredItem, requestedItem)
\* pair in every state, and a propose repeating the (offeredItem,
\* requestedItem, initiator) of a Trade that is still pending fails with
\* ConflictError and creates nothing.
C5_OnePendingPerPair ==
  /\ [](\A o \in Items, r \in Items : Cardinality(PendingFor(o, r)) <= 1)
  /\ [][last'.op = "propose" => \A c \in Users, o \in Items, r \in Items :
          (/\ \E t \in PendingFor(o, r) : trades[t].initiatedBy = c
           /\ createTrade(c, o, r))
          => (last'.res = "ConflictError" /\ StoreUnchanged)]_vars

\* The second of two identical proposals has been answered with
\* ConflictError while the first one's Trade is pending.
C5_Witness ==
  /\ last.op = "propose"
  /\ last.res = "ConflictError"
  /\ \E t \in TradeIds : trades[t].status = "pending"

\* C6: for every Trade the offered item's owner is initiatedBy, the
\* requested item's owner is respondedBy, and initiatedBy differs from
\* respondedBy.
C6_Ownership ==
  \A t \in TradeIds :
    /\ Owner[trades[t].offeredItem] = trades[t].initiatedBy
    /\ Owner[trades[t].requestedItem] = trades[t].respondedBy
    /\ trades[t].initiatedBy # trades[t].respondedBy

\* Trades exist and a proposal for the caller's own item was turned down.
C6_Witness ==
  /\ Len(trades) >= 2
  /\ last.op = "propose"
  /\ last.res = "ValidationError"

\* C7: when one of two reciprocal proposals (o -> r and r -> o) arrives
\* while the other is pending, the pair is resolved as one match: both
\* Trades are accepted and no Trade of the pair is left pending.
C7_ReciprocalResolved ==
  [][last'.op = "propose" => \A c \in Users, o \in Items, r \in Items :
       (/\ Owner[o] = c
        /\ Owner[r] # c
        /\ PendingFor(r, o) # {}
        /\ createTrade(c, o, r))
       => (/\ PendingFor(o, r)' = {}
           /\ PendingFor(r, o)' = {}
           /\ \E t \in 1..Len(trades') :
                /\ trades'[t].offeredItem = o
                /\ trades'[t].requestedItem = r
                /\ trades'[t].status = "accepted"
           /\ \E t \in 1..Len(trades') :
                /\ trades'[t].offeredItem = r
                /\ trades'[t].requestedItem = o
                /\ trades'[t].status = "accepted")]_vars

\* C8: accept by respondedBy on a pending Trade succeeds: the Trade becomes
\* accepted, the offered and the requested item become traded, and one
\* trade-type Notification is created for the initiator.
C8_AcceptSucceeds ==
  [][last'.op = "accept" => \A c \in Users, t \in TradeIds :
       (/\ trades[t].status = "pending"
        /\ c = trades[t].respondedBy
        /\ acceptTrade(c, t))
       => (/\ last'.res = "ok"
           /\ trades' = [trades EXCEPT ![t].status = "accepted"]
           /\ status'[trades[t].offeredItem] = "traded"
           /\ status'[trades[t].requestedItem] = "traded"
           /\ Len(Added) = 1
           /\ CountAdded(trades[t].initiatedBy, "trade") = 1)]_vars

\* C9 (as stated): reject by respondedBy on a pending Trade moves the Trade
\* to rejected, returns the offered item to available and leaves the
\* requested item and every other Trade and item unchanged.
C9_RejectReleases ==
  [][last'.op = "reject" => \A c \in Users, t \in TradeIds :
       (/\ trades[t].status = "pending"
        /\ c = trades[t].respondedBy
        /\ rejectTrade(c, t))
       => (/\ trades' = [trades EXCEPT ![t].status = "rejected"]
           /\ status' = [status EXCEPT ![trades[t].offeredItem] = "available"]
           /\ status'[trades[t].requestedItem]
                = status[trades[t].requestedItem])]_vars

\* C9 (amended): reject by respondedBy on a pending Trade whose offered
\* item is still pending moves the Trade to rejected, returns the offered
\* item to available and leaves the requested item and every other Trade
\* and item unchanged; when the offered item was traded meanwhile through
\* another Trade, reject fails with InvalidStateError and changes nothing.
C9_RejectReleasesPending ==
  [][last'.op = "reject" => \A c \in Users, t \in TradeIds :
       (/\ trades[t].status = "pending"
        /\ c = trades[t].respondedBy
        /\ rejectTrade(c, t))
       => IF status[trades[t].offeredItem] = "pending"
          THEN /\ last'.res = "ok"
               /\ trades' = [trades EXCEPT ![t].status = "rejected"]
               /\ status' = [status EXCEPT
                               ![trades[t].offeredItem] = "available"]
               /\ status'[trades[t].requestedItem]
                    = status[trades[t].requestedItem]
               /\ UNCHANGED <<notifications, stats>>
          ELSE /\ status[trades[t].offeredItem] = "traded"
               /\ last'.res = "InvalidStateError"
               /\ StoreUnchanged]_vars

\* A proposal has been rejected: its Trade is rejected, the item it
\* offered is available again, and another Trade is untouched.
C9_Witness ==
  /\ last.op = "reject"
  /\ last.res = "ok"
  /\ trades[last.trade].status = "rejected"
  /\ status[trades[last.trade].offeredItem] = "available"
  /\ \E t \in TradeIds : trades[t].status = "pending"

\* C10: accept or reject by a user other than the Trade's respondedBy fails
\* with AuthorizationError, and by respondedBy on a Trade that is not
\* pending with InvalidStateError; in both cases no Trade, Item, User or
\* Notification changes.
C10_AcceptRejectGuards ==
  [][last'.op \in {"accept", "reject"} => \A c \in Users, t \in TradeIds :
       (acceptTrade(c, t) \/ rejectTrade(c, t))
       => /\ c # trades[t].respondedBy
               => (last'.res = "AuthorizationError" /\ StoreUnchanged)
          /\ (c = trades[t].respondedBy /\ trades[t].status # "pending")
               => (last'.res = "InvalidStateError" /\ StoreUnchanged)]_vars

\* An accept by someone other than respondedBy has been refused while the
\* Trade is pending.
C10_Witness ==
  /\ last.op = "accept"
  /\ last.res = "AuthorizationError"
  /\ \E t \in TradeIds : trades[t].status = "pending"

\* A propose of an item by its owner for another user's item while one of
\* the two items is not available.
Unavailable(c, o, r) ==
  /\ Owner[o] = c
  /\ Owner[r] # c
  /\ (status[o] # "available" \/ status[r] # "available")

\* C11 (as stated): propose with an offered or requested item whose status
\* is not available fails with InvalidStateError and performs zero writes.
C11_UnavailableIsInvalidState ==
  [][last'.op = "propose" => \A c \in Users, o \in Items, r \in Items :
       (Unavailable(c, o, r) /\ createTrade(c, o, r))
       => (last'.res = "InvalidStateError" /\ StoreUnchanged)]_vars

\* C11 (amended): propose with an offered or requested item whose status is
\* not available performs zero writes and fails with InvalidStateError,
\* except that the repetition of the caller's own still pending proposal
\* fails with ConflictError.
C11_UnavailableFails ==
  [][last'.op = "propose" => \A c \in Users, o \in Items, r \in Items :
       (Unavailable(c, o, r) /\ createTrade(c, o, r))
       => /\ StoreUnchanged
          /\ last'.res = IF \E t \in PendingFor(o, r) : trades[t].initiatedBy = c
                         THEN "ConflictError"
                         ELSE "InvalidStateError"]_vars

\* A propose was refused with InvalidStateError after an item was traded.
C11_Witness ==
  /\ last.op = "propose"
  /\ last.res = "InvalidStateError"
  /\ \E i \in Items : status[i] = "traded"

\* C12: a Trade is created pending; a Trade that is accepted and whose two
\* items are traded has moved on to completed; and no step changes the
\* status of a Trade that is rejected or completed.
C12_TradeLifecycle ==
  /\ [](\A t \in TradeIds :
          (/\ status[trades[t].offeredItem] = "traded"
           /\ status[trades[t].requestedItem] = "traded")
          => trades[t].status # "accepted")
  /\ [][/\ Len(trades') > Len(trades)
             => trades'[Len(trades')].status = "pending"
        /\ \A t \in TradeIds :
             trades[t].status \in {"rejected", "completed"}
               => trades'[t].status = trades[t].status]_vars

\* ---------------------------------------------------------------------- C13
\* C13: the read flag of a notification is monotonic: no step of
\* markAsRead / markAllAsRead (on the screen's list or on the server) makes
\* a read notification unread again, and marking one notification read
\* changes no notification other than the one with that id.
C13_ReadMonotonic ==
  [][/\ \A n \in 1..Len(notifications) :
          notifications[n].read => notifications'[n].read
     /\ \A n \in DOMAIN screenNotifications :
          screenNotifications[n].read => screenNotifications'[n].read
     /\ \A id \in DOMAIN screenNotifications :
          markAsRead(id) =>
            \A n \in DOMAIN screenNotifications \ {id} :
               screenNotifications'[n] = screenNotifications[n]
     /\ \A c \in Users, n \in 1..Len(notifications) :
          markRead(c, n) =>
            \A m \in 1..Len(notifications) \ {n} :
               notifications'[m] = notifications[m]]_vars

\* One entry of the screen's list was marked read while another is still
\* unread, and a recipient marked one of several server notifications.
C13_Witness ==
  /\ screenNotifications[1].read
  /\ ~screenNotifications[2].read
  /\ last.op = "markRead"
  /\ last.res = "ok"
  /\ \E n \in 1..Len(notifications) : notifications[n].read
  /\ \E n \in 1..Len(notifications) : ~notifications[n].read

\* ---------------------------------------------------------------------- C14
\* C14: an item is never created with zero images: every createItem request
\* the submission screen sends carries a non-empty images list, also when
\* some or all of the uploads failed.  (Violated by the part_005 screen.)
C14_NeverZeroImages ==
  \A i \in 1..Len(form.request) : Len(form.request[i].images) > 0

\* ---------------------------------------------------------------------- C15
\* C15: after any sequence of take-photo, choose-from-library and
\* remove-image actions the form holds at most 3 images, and no createItem
\* request carries more than 3.
C15_AtMostThreeImages ==
  /\ Len(form.images) <= MaxImages
  /\ \A i \in 1..Len(form.request) : Len(form.request[i].images) <= MaxImages

\* A full form whose request with 3 images the server refused.
C15_Witness ==
  /\ Len(form.images) = MaxImages
  /\ form.request # << >>
  /\ Len(form.request[1].images) = MaxImages

\* ---------------------------------------------------------------------- C16
\* C16: the password is never stored in plaintext: whatever register, login,
\* enable-biometrics, biometric-login and logout steps were taken, no key of
\* the device storage and no User record holds a plaintext password.
\* (Violated by enableBiometrics.)
C16_NoPlaintextPassword ==
  /\ \A k \in DOMAIN storage : storage[k] \notin Passwords
  /\ \A e \in Emails : accounts[e] \notin Passwords

\* ---------------------------------------------------------------------- C19
\* C19: logout never fails for the user: it can always be carried out,
\* whatever the server answers to the logout call, and after it user is
\* null, isAuthenticated and isLoading are false and neither auth_token nor
\* refresh_token is in the storage.
\* (A step of an authenticated session that leaves the logout call as the
\* last request is a step of logout; with part_015, which makes no logout
\* call, it is the step that changes the session without unmounting it.)
C19_LogoutAlwaysCompletes ==
  /\ [](session.checked /\ session.isAuthenticated
        => \A script \in Scripts : ENABLED logout(script))
  /\ [][(/\ session.isAuthenticated
          /\ \/ http'.url = "/api/auth/logout"
             \/ (/\ session.context = "part_015"
                 /\ session'.checked
                 /\ session' # session)) =>
          /\ session'.user = << >>
          /\ ~session'.isAuthenticated
          /\ ~session'.isLoading
          /\ AUTH_TOKEN_KEY \notin DOMAIN storage'
          /\ REFRESH_TOKEN_KEY \notin DOMAIN storage']_vars

\* A logout whose server call was answered 401 twice, a token refresh in
\* between having stored new tokens.
C19_Witness ==
  /\ http.url = "/api/auth/logout"
  /\ http.received = <<401, 401>>
  /\ http.refreshes = 1
  /\ ~session.isAuthenticated
  /\ session.checked
  /\ \E e \in Emails : accounts[e] # << >>

\* ---------------------------------------------------------------------- C20
\* C20: a request answered 401 is retried at most once: a request gets at
\* most two responses and causes at most one token refresh; there is a
\* second response only after a 401 and a refresh, and the request succeeds
\* exactly if its last response is 200, so a second 401 is returned as an
\* error with no further refresh and no further re-send.
C20_RetryAtMostOnce ==
  /\ Len(http.received) <= 2
  /\ http.refreshes <= 1
  /\ Len(http.received) = 2 => (http.received[1] = 401 /\ http.refreshes = 1)
  /\ http.ok <=> (http.received # << >>
                  /\ http.received[Len(http.received)] = 200)

\* A request answered 401, re-sent after the refresh and answered 401 again.
C20_Witness ==
  /\ http.url = "/api/items"
  /\ http.received = <<401, 401>>
  /\ http.refreshes = 1
  /\ ~http.ok

\* ---------------------------------------------------------------------- C17
\* C17: a registration request is sent only if the name is not blank, the
\* email passes the format check, the password has at least 6 characters
\* and the confirmation equals the password; for every other input no
\* request is sent and an error is recorded for each offending field.
C17_RegisterValidation ==
  reg.submitted =>
    LET nameOk == \E i \in 1..Len(reg.name) : reg.name[i] # " "
        emailOk == emailRegexTest(reg.email)
        passwordOk == Len(reg.password) >= 6
        confirmOk == reg.confirmPassword = reg.password IN
    /\ reg.request # << >> <=> (nameOk /\ emailOk /\ passwordOk /\ confirmOk)
    /\ ~nameOk => reg.nameError # ""
    /\ ~emailOk => reg.emailError # ""
    /\ ~passwordOk => reg.passwordError # ""
    /\ ~confirmOk => reg.confirmPasswordError # ""

\* A form that was sent, its password just long enough.
C17_Witness ==
  /\ reg.submitted
  /\ reg.request # << >>
  /\ Len(reg.request[1].password) = MinPasswordLength
  /\ reg.request[1].password = reg.confirmPassword
  /\ session.isAuthenticated

\* ---------------------------------------------------------------------- C18
\* C18: every card of the swipe deck is an item of the store that had status
\* available when it was listed and is not owned by the user.
\* (Violated by the placeholder cards shown when the API fails or returns
\* nothing.)
C18_DeckCardsAvailable ==
  \A n \in 1..Len(deck.potentialTrades) :
    LET item == deck.potentialTrades[n].item IN
    /\ item.id \in Items
    /\ item.status = "available"
    /\ item.owner # deck.user

\* ---------------------------------------------------------------------- C21
\* C21: a request that is answered 401 while no refresh token is stored or
\* while the refresh call fails is rejected, is not sent again, and leaves
\* neither auth_token nor refresh_token in the storage.
C21_FailedRefreshLogsOut ==
  \A script \in Scripts :
    LET r == apiRequest(storage, script) IN
    (/\ script.resps[1] = 401
     /\ (~truthy(storage, REFRESH_TOKEN_KEY) \/ ~script.refreshOk))
    => /\ ~r.ok
       /\ r.received = <<401>>
       /\ AUTH_TOKEN_KEY \notin DOMAIN r.storage
       /\ REFRESH_TOKEN_KEY \notin DOMAIN r.storage

\* A request of a signed-in user was answered 401, the refresh call failed,
\* and the tokens that were stored are gone.
C21_Witness ==
  /\ http.url = "/api/items"
  /\ http.received = <<401>>
  /\ http.refreshes = 1
  /\ ~http.ok
  /\ session.isAuthenticated
  /\ AUTH_TOKEN_KEY \notin DOMAIN storage
  /\ REFRESH_TOKEN_KEY \notin DOMAIN storage

\* ---------------------------------------------------------------------- C22
\* C22: after a login that completed (isAuthenticated became true), the
\* access token of the response is stored under auth_token, whichever field
\* carried it and whether or not the response had a refresh token.
\* (Violated by a response without a refresh token.)
C22_LoginStoresToken ==
  [][(/\ ~session.isAuthenticated
      /\ session'.isAuthenticated
      /\ http'.url = "/api/auth/login")
     => getItem(storage', AUTH_TOKEN_KEY) = <<"at1">>]_vars

\* ---------------------------------------------------------------------- C23
\* C23: the startup check ends with isLoading false; at its end
\* isAuthenticated is true exactly if a token was stored and the profile
\* fetch returned user data; with a token stored and a profile fetch that
\* failed or returned nothing, the user is logged out and both tokens are
\* removed.
\* (Violated by part_014, which signs in with an empty profile, and by
\* part_015, which never signs in.)
C23_StartupCheck ==
  [][(~session.checked /\ session'.checked) =>
     \A profile \in Scripts, hasData \in BOOLEAN :
       (\E logoutScript \in Scripts :
          checkAuthStatusWith(profile, hasData, logoutScript))
       => LET token == truthy(storage, AUTH_TOKEN_KEY)
              userData == apiRequest(storage, profile).ok /\ hasData IN
          /\ ~session'.isLoading
          /\ session'.isAuthenticated <=> (token /\ userData)
          /\ (token /\ ~userData)
               => /\ session'.user = << >>
                  /\ AUTH_TOKEN_KEY \notin DOMAIN storage'
                  /\ REFRESH_TOKEN_KEY \notin DOMAIN storage']_vars

\* ---------------------------------------------------------------------- C24
\* C24: a save of a User record whose password was not modified leaves the
\* stored password hash unchanged, so matchPassword with the password that
\* matched before the save still succeeds after it.
\* (Violated: the pre-save hook hashes the stored hash again.)
C24_SaveKeepsPassword ==
  [][\A e \in Emails :
       listings'[e] # listings[e] =>
         /\ accounts'[e] = accounts[e]
         /\ \A p \in Passwords :
              matchPassword(p, accounts[e])
                => matchPassword(p, accounts'[e])]_vars

\* ---------------------------------------------------------------------- C25
\* C25: every like of the current card, by a swipe to the right or by the
\* like button, sends exactly one createTrade request, offering the selected
\* item for that card's item.
\* (Violated by the gesture, whose handler sees an empty deck.)
C25_LikeSendsOneRequest ==
  [][(gestureRight \/ \E apiOk \in BOOLEAN : pressLike(apiOk)) =>
     deck'.sent =
       <<[offeredItemId |-> deck.selectedItemId,
          requestedItemId |->
            deck.potentialTrades[deck.currentIndex + 1].item.id]>>]_vars

\* ---------------------------------------------------------------------- C26
\* C26: between deck reloads currentIndex never decreases, and every swipe
\* to the left, by gesture or by button, advances it by exactly one.
\* (Violated by the gesture, which sets currentIndex to 1.)
C26_IndexAdvances ==
  [][/\ ~(\E apiOk \in BOOLEAN : tryAgain(apiOk))
        => deck'.currentIndex >= deck.currentIndex
     /\ (gestureLeft \/ pressPass)
        => deck'.currentIndex = deck.currentIndex + 1]_vars

\* ---------------------------------------------------------------------- C27
\* C27: a createTrade request is only sent for an item that the backend
\* returned as a potential match; no trade is proposed for a placeholder.
\* (Violated by a like of a placeholder card.)
C27_NoPlaceholderTrade ==
  \A n \in 1..Len(deck.sent) :
    /\ deck.sent[n].requestedItemId \in Items
    /\ \A m \in 1..Len(mockTradeItems) :
         deck.sent[n].requestedItemId # mockTradeItems[m].item.id

\* C28: once every request of a batch delete is answered, an item of the batch
\* is gone from the screen's list exactly if its delete was carried out by the
\* server, also when another delete of the batch failed, and isDeleting is
\* false.
C28_ListAgreesWithServer ==
  (home.batch # {} /\ home.pending = {}) =>
    /\ ~home.isDeleting
    /\ \A id \in home.batch : id \notin home.items <=> id \in home.succeeded

\* C29: session consistency: a session that is authenticated has an auth
\* token in storage; a forced logout of the HTTP layer, which removes the
\* tokens after a failed refresh, leaves no authenticated session behind.
C29_SessionConsistency ==
  session.isAuthenticated => AUTH_TOKEN_KEY \in DOMAIN storage

====
